---------------------------- MODULE Spec2Model ----------------------------
(***************************************************************************)
(* Model of the importer package of zymatik-com/importer: the two record   *)
(* pipelines DBSNP (src/unnamed/part_000) and GnoMAD (src/unnamed/part_001)*)
(* with their batch buffering, seen as a state machine that opens the      *)
(* source file and then reads one source record per step, and the chain    *)
(* file import LiftOverChain (src/internal/importer/liftover.go).          *)
(*                                                                         *)
(* Strings the code parses (identifiers, pipe-delimited arrays) are        *)
(* sequences of one-character strings, so that TrimPrefix, Split, ParseInt *)
(* and ParseFloat are computed as the Go library computes them.            *)
(* Frequencies are integers in units of 10^-5 (0.001 is 100, 0.00001 is 1).*)
(***************************************************************************)
EXTENDS Integers, Sequences, FiniteSets, TLC

VARIABLES
    fn,        \* the import call being run: "DBSNP", "GnoMAD" or "LiftOverChain"
    profile,   \* the kind of source file read (see VariantSource, FrequencySource)
    pc,        \* "open" at the call, "loop" while the read loop runs, "done"
               \* once the call returned
    handles,   \* the source file f and the decompression stream dr of the
               \* call: each "none", "open" or "closed"
    err,       \* the call's result: "nil" or the error returned
    nread,     \* number of records vcfReader.Read() has returned
    variant,   \* the loop variable: the record last read (NoRecord before)
    emitted,   \* rows appended to the buffer while processing `variant`
    variants,  \* DBSNP's buffer
    alleles,   \* GnoMAD's buffer
    stored,    \* the destination: batches whose store call succeeded, in order
    rejected,  \* the batch handed to the store call that failed (<<>> if none)
    eosCalls,  \* store calls made after Read() returned nil
    cancelled, \* ctx has been cancelled
    midBatch   \* ctx was cancelled while the buffer of the call was non-empty

vars == <<fn, profile, pc, handles, err, nread, variant, emitted, variants,
          alleles, stored, rejected, eosCalls, cancelled, midBatch>>

-----------------------------------------------------------------------------
(* Bounds of the model.                                                    *)

\* Records in a file of a mixed profile (any record of the profile at any place).
MaxMixed == 2

\* Records in a "bulk" dbSNP file.
MaxBulk == 2551

\* Records in a "bulk" or "fanout" gnomAD file (qualifying records only).
MaxFanout == 700

-----------------------------------------------------------------------------
(* Go's strings and strconv, over sequences of characters.                 *)

rs == <<"r", "s">>

DigitChars == <<"0", "1", "2", "3", "4", "5", "6", "7", "8", "9">>

IsDigit(c) == \E i \in 1..10 : DigitChars[i] = c

DigitVal(c) == (CHOOSE i \in 1..10 : DigitChars[i] = c) - 1

\* strings.HasPrefix
HasPrefix(s, p) == Len(s) >= Len(p) /\ SubSeq(s, 1, Len(p)) = p

\* strings.TrimPrefix
TrimPrefix(s, p) == IF HasPrefix(s, p) THEN SubSeq(s, Len(p) + 1, Len(s)) ELSE s

\* strings.Split(s, sep) for a one-character separator: always at least one
\* token, empty tokens kept.
RECURSIVE SplitFrom(_, _, _, _)
SplitFrom(s, sep, i, cur) ==
    IF i > Len(s) THEN <<cur>>
    ELSE IF s[i] = sep THEN <<cur>> \o SplitFrom(s, sep, i + 1, <<>>)
    ELSE SplitFrom(s, sep, i + 1, Append(cur, s[i]))

Split(s, sep) == SplitFrom(s, sep, 1, <<>>)

RECURSIVE StripZeros(_)
StripZeros(d) == IF Len(d) > 1 /\ d[1] = "0" THEN StripZeros(Tail(d)) ELSE d

RECURSIVE DigitsValue(_, _)
DigitsValue(d, acc) ==
    IF d = <<>> THEN acc ELSE DigitsValue(Tail(d), 10 * acc + DigitVal(d[1]))

\* The decimal digits of 2^63 - 1 and of 2^63 (the int64 range of ParseInt).
MaxInt64Digits ==
    <<"9","2","2","3","3","7","2","0","3","6","8","5","4","7","7","5","8","0","7">>

MinInt64Digits ==
    <<"9","2","2","3","3","7","2","0","3","6","8","5","4","7","7","5","8","0","8">>

\* d <= e for digit strings of equal length.
RECURSIVE DigitsLeq(_, _)
DigitsLeq(d, e) ==
    IF d = <<>> THEN TRUE
    ELSE IF d[1] # e[1] THEN DigitVal(d[1]) < DigitVal(e[1])
    ELSE DigitsLeq(Tail(d), Tail(e))

\* strconv.ParseInt(s, 10, 64): an optional sign, then one or more decimal
\* digits and nothing else, the value within int64.
ParseInt(s) ==
    LET neg  == s # <<>> /\ s[1] = "-"
        sgn  == s # <<>> /\ s[1] \in {"+", "-"}
        body == IF sgn THEN Tail(s) ELSE s
        sig  == StripZeros(body)
        lim  == IF neg THEN MinInt64Digits ELSE MaxInt64Digits
    IN  IF body = <<>> \/ \E i \in 1..Len(body) : ~IsDigit(body[i])
        THEN [ok |-> FALSE, val |-> 0]
        ELSE IF Len(sig) > 19 \/ (Len(sig) = 19 /\ ~DigitsLeq(sig, lim))
        THEN [ok |-> FALSE, val |-> 0]
        ELSE [ok |-> TRUE,
              val |-> IF neg THEN 0 - DigitsValue(sig, 0) ELSE DigitsValue(sig, 0)]

\* The decimal rendering of a natural number (how a source file spells it).
RECURSIVE Digits(_)
Digits(n) ==
    IF n < 10 THEN <<DigitChars[n + 1]>>
    ELSE Append(Digits(n \div 10), DigitChars[(n % 10) + 1])

-----------------------------------------------------------------------------
(* src/unnamed/part_000: constants and the accession table.                *)

batchSize == 1000

Accessions ==
    {"NC_000001.11", "NC_000002.12", "NC_000003.12", "NC_000004.12",
     "NC_000005.10", "NC_000006.12", "NC_000007.14", "NC_000008.11",
     "NC_000009.12", "NC_000010.11", "NC_000011.10", "NC_000012.12",
     "NC_000013.11", "NC_000014.9", "NC_000015.10", "NC_000016.10",
     "NC_000017.11", "NC_000018.10", "NC_000019.10", "NC_000020.11",
     "NC_000021.9", "NC_000022.11", "NC_000023.11", "NC_000024.10",
     "NC_012920.1"}

idToChromosome(a) ==
    CASE a = "NC_000001.11" -> "1"   [] a = "NC_000002.12" -> "2"
      [] a = "NC_000003.12" -> "3"   [] a = "NC_000004.12" -> "4"
      [] a = "NC_000005.10" -> "5"   [] a = "NC_000006.12" -> "6"
      [] a = "NC_000007.14" -> "7"   [] a = "NC_000008.11" -> "8"
      [] a = "NC_000009.12" -> "9"   [] a = "NC_000010.11" -> "10"
      [] a = "NC_000011.10" -> "11"  [] a = "NC_000012.12" -> "12"
      [] a = "NC_000013.11" -> "13"  [] a = "NC_000014.9" -> "14"
      [] a = "NC_000015.10" -> "15"  [] a = "NC_000016.10" -> "16"
      [] a = "NC_000017.11" -> "17"  [] a = "NC_000018.10" -> "18"
      [] a = "NC_000019.10" -> "19"  [] a = "NC_000020.11" -> "20"
      [] a = "NC_000021.9" -> "21"   [] a = "NC_000022.11" -> "22"
      [] a = "NC_000023.11" -> "X"   [] a = "NC_000024.10" -> "Y"
      [] a = "NC_012920.1" -> "MT"


NoRow == [ID |-> 0, Chromosome |-> "", Position |-> 0, Reference |-> "", Class |-> ""]

\* line 143
parRegion(chromosome, pos) ==
    (chromosome = "X" \/ chromosome = "Y") /\ pos >= 10001 /\ pos <= 2781479

\* The lower bound of the X region taken exclusive.
par2RegionExclusive(chromosome, pos) ==
    \/ (chromosome = "X" /\ pos > 155701383 /\ pos <= 156030895)
    \/ (chromosome = "Y" /\ pos >= 56887903 /\ pos <= 57217415)

\* lines 145-146
par2Region(chromosome, pos) ==
    \/ (chromosome = "X" /\ pos >= 155701383 /\ pos <= 156030895)
    \/ (chromosome = "Y" /\ pos >= 56887903 /\ pos <= 57217415)

\* Y records remapped like X records instead of dropped.
parLabelBalanced(chromosome, pos) ==
    IF parRegion(chromosome, pos) THEN "PAR"
    ELSE IF par2Region(chromosome, pos) THEN "PAR2"
    ELSE chromosome

\* lines 149-159: the record is dropped ("") or keeps, or changes, its label.
parLabel(chromosome, pos) ==
    IF (parRegion(chromosome, pos) \/ par2Region(chromosome, pos)) /\ chromosome = "Y"
    THEN ""
    ELSE IF parRegion(chromosome, pos) THEN "PAR"
    ELSE IF par2Region(chromosome, pos) THEN "PAR2"
    ELSE chromosome

\* The error of ParseInt ignored (the identifier is then 0).
parseVariantIdUnchecked(id) == [ok |-> TRUE, val |-> ParseInt(TrimPrefix(id, rs)).val]

\* lines 133-136: the identifier of a dbSNP record.
parseVariantId(id) == ParseInt(TrimPrefix(id, rs))

\* lines 113-167: what one iteration of DBSNP's loop does with record r, up to
\* the append: "skip" (continue), "error" (return) or "emit" (append row).
NormalizeVariant(r) ==
    IF r.common = "err"
    THEN [kind |-> "error", err |-> "could not get variant commonness", row |-> NoRow]
    ELSE IF r.common # "true"
    THEN [kind |-> "skip", err |-> "nil", row |-> NoRow]
    ELSE IF r.vc = "err"
    THEN [kind |-> "error", err |-> "could not get variant class", row |-> NoRow]
    ELSE IF r.vc = "MNV"
    THEN [kind |-> "skip", err |-> "nil", row |-> NoRow]
    ELSE IF ~parseVariantId(r.id).ok
    THEN [kind |-> "error", err |-> "could not parse variant id", row |-> NoRow]
    ELSE IF r.chrom \notin Accessions
    THEN [kind |-> "skip", err |-> "nil", row |-> NoRow]
    ELSE IF parLabel(idToChromosome(r.chrom), r.pos) = ""
    THEN [kind |-> "skip", err |-> "nil", row |-> NoRow]
    ELSE [kind |-> "emit", err |-> "nil",
          row |-> [ID |-> parseVariantId(r.id).val,
                   Chromosome |-> parLabel(idToChromosome(r.chrom), r.pos),
                   Position |-> r.pos,
                   Reference |-> r.ref,
                   Class |-> r.vc]]

-----------------------------------------------------------------------------
(* The collaborators: the storage engine and the source file.              *)

\* db.StoreVariants / db.StoreAlleles: the call stores the whole batch and
\* returns nil, or stores nothing and returns an error; with ctx cancelled it
\* returns the context's error.
StoreResults(ctxDone) == IF ctxDone THEN {"ctx"} ELSE {"nil", "fail"}

\* A store call made with a context of its own.
storeCtxBackground(ctxDone) == FALSE

\* lines 170 and 179 (296 and 305 of part_001): the store call is given the
\* caller's ctx.
storeCtx(ctxDone) == ctxDone

NoRecord == [kind |-> "none"]

\* Positions around every bound of the PAR policy, and the spec's examples.
Positions ==
    {1, 10000, 10001, 60000, 2781479, 2781480, 5000000,
     56887902, 56887903, 57217415, 57217416,
     155701382, 155701383, 156000000, 156030895, 156030896}

VariantRecord(common, vc, id, chrom, pos) ==
    [kind |-> "dbsnp", common |-> common, vc |-> vc, id |-> id,
     chrom |-> chrom, pos |-> pos, ref |-> "A"]

\* Identifier fields of dbSNP records: rs12345, rsABC, 12, rs, rs-7 and
\* rs9223372036854775808 (2^63).
VariantIds ==
    {rs \o <<"1", "2", "3", "4", "5">>, rs \o <<"A", "B", "C">>, <<"1", "2">>,
     rs, rs \o <<"-", "7">>, rs \o MinInt64Digits}

\* The positions of the records that follow the first one in a "par" file:
\* the spec's examples and the first position of the second X region.
LaterPositions == {60000, 5000000, 155701383, 156000000}

\* The records the n-th record (from 0) of a dbSNP file is drawn from, by the
\* file's profile: "par" holds X and Y records, the first at any position of
\* Positions; "table" starts with a record of any accession (or an unknown
\* one) and goes on with chromosome 1, MT and unknown contigs; "filters"
\* holds every commonness, class and identifier.
MixedVariants(prof, n) ==
    CASE prof = "par" ->
           {VariantRecord("true", "SNV", rs \o <<"1", "2", "3", "4", "5">>, c, p) :
               c \in {"NC_000023.11", "NC_000024.10"},
               p \in IF n = 0 THEN Positions ELSE LaterPositions}
      [] prof = "table" ->
           {VariantRecord("true", "DEL", rs \o <<"7">>, c, 60000) :
               c \in IF n = 0 THEN Accessions \cup {"NW_000001.1"}
                     ELSE {"NC_000001.11", "NC_012920.1", "NW_000001.1"}}
      [] prof = "filters" ->
           {VariantRecord(common, vc, id, c, 5000000) :
               common \in {"true", "false", "err"}, vc \in {"SNV", "MNV", "err"},
               id \in VariantIds, c \in {"NC_000001.11", "NW_000001.1"}}

\* The n-th record (from 0) of a "bulk" dbSNP file: common, on chromosome 1,
\* identifier rs<n+1>, position n+1; every fiftieth record is a
\* multi-nucleotide variant, the others are single-nucleotide variants.
BulkVariant(n) ==
    VariantRecord("true", IF n % 50 = 49 THEN "MNV" ELSE "SNV",
                  rs \o Digits(n + 1), "NC_000001.11", n + 1)

\* The records vcfReader.Read() may return as the n-th record of the file.
VariantSource(prof, n) ==
    IF prof = "bulk"
    THEN IF n < MaxBulk THEN {BulkVariant(n)} ELSE {}
    ELSE IF n < MaxMixed THEN MixedVariants(prof, n) ELSE {}

-----------------------------------------------------------------------------
(* The source file and the decompression stream of a call.                 *)

NoHandles == [f |-> "none", dr |-> "none"]

\* How far the opening code of DBSNP and GnoMAD gets: os.Open fails, f.Stat
\* fails (it is only called with showProgress), compress.Decompress fails,
\* vcfgo.NewReader fails, or the loop is reached.
OpenOutcomes(showProgress) ==
    {"open", "decompress", "reader", "ok"} \cup (IF showProgress THEN {"stat"} ELSE {})

\* lines 73-104 of part_000, 71-103 of part_001: the handles the call holds
\* when the opening code stops at `outcome`.
openedHandles(outcome) ==
    CASE outcome = "open" -> NoHandles
      [] outcome \in {"stat", "decompress"} -> [f |-> "open", dr |-> "none"]
      [] OTHER -> [f |-> "open", dr |-> "open"]

\* lines 73-104 of part_000: the error DBSNP returns from its opening code.
openErrorDBSNP(outcome) ==
    CASE outcome = "open" -> "could not open dbSNP file"
      [] outcome = "stat" -> "could not get file info"
      [] outcome = "decompress" -> "could not decompress dbSNP file"
      [] outcome = "reader" -> "could not create vcf reader"
      [] OTHER -> "nil"

\* lines 71-103 of part_001: the error GnoMAD returns from its opening code
\* (the error of os.Open is returned as it is).
openErrorGnoMAD(outcome) ==
    CASE outcome = "open" -> "os.Open error"
      [] outcome = "stat" -> "could not get file info"
      [] outcome = "decompress" -> "could not decompress gnoMAD file"
      [] outcome = "reader" -> "could not create vcf reader"
      [] OTHER -> "nil"

\* line 99 of part_000: the deferred calls of DBSNP, run when it returns:
\* dr.Close() only, no Close of f.  Closing the stream leaves the file under
\* it as it is: GnoMAD and LiftOverChain close both, LiftOverChain the file
\* before the stream.
deferredDBSNP(h) ==
    [f  |-> h.f,
     dr |-> IF h.dr = "open" THEN "closed" ELSE h.dr]

\* lines 75 and 98 of part_001: the deferred calls of GnoMAD, f.Close() and
\* dr.Close(); they also run when the call panics.
deferredGnoMAD(h) ==
    [f  |-> IF h.f = "open" THEN "closed" ELSE h.f,
     dr |-> IF h.dr = "open" THEN "closed" ELSE h.dr]

\* lines 40 and 46 of liftover.go: the deferred calls of LiftOverChain.
deferredLiftOverChain(h) ==
    [f  |-> IF h.f = "open" THEN "closed" ELSE h.f,
     dr |-> IF h.dr = "open" THEN "closed" ELSE h.dr]

-----------------------------------------------------------------------------
(* DBSNP, src/unnamed/part_000 lines 72-188.                               *)

\* lines 73-104: the file is opened, decompressed and handed to the reader.
DBSNPOpen ==
    /\ fn = "DBSNP" /\ pc = "open"
    /\ \E showProgress \in BOOLEAN :
         \E outcome \in OpenOutcomes(showProgress) :
           /\ pc' = IF outcome = "ok" THEN "loop" ELSE "done"
           /\ err' = openErrorDBSNP(outcome)
           /\ handles' = IF outcome = "ok" THEN openedHandles(outcome)
                         ELSE deferredDBSNP(openedHandles(outcome))
    /\ UNCHANGED <<fn, profile, nread, variant, emitted, variants, alleles,
                   stored, rejected, eosCalls, cancelled, midBatch>>

\* A flush one record late.
variantsFullLate(buf) == Len(buf) > batchSize

\* line 169: the buffer has reached the threshold.
variantsFull(buf) == Len(buf) >= batchSize

\* An unconditional flush at the end of the stream.
variantsRemainAlways(buf) == TRUE

\* line 178: records remain at the end of the stream.
variantsRemain(buf) == Len(buf) > 0

\* The store call's error is dropped.
variantsStoreErrorDropped(res) == FALSE

\* lines 170-172 and 179-181: the store call's error makes DBSNP return.
variantsStoreFailed(res) == res # "nil"

\* The reader's error examined before the remaining records are stored.
finalFlushUnlessReaderError(buf, readerErr) == variantsRemain(buf) /\ ~readerErr

\* lines 178-186: the remaining records are stored whatever error the reader
\* has recorded; vcfReader.Error() is only examined afterwards.
finalFlush(buf, readerErr) == variantsRemain(buf)

\* lines 107-176: one iteration of the loop for a record the reader returned.
DBSNPRead ==
    /\ fn = "DBSNP" /\ pc = "loop"
    /\ \E r \in VariantSource(profile, nread) :
         LET o == NormalizeVariant(r)
             nv == Append(variants, o.row)
         IN  /\ variant' = r
             /\ nread' = nread + 1
             /\ UNCHANGED <<fn, profile, alleles, eosCalls, cancelled, midBatch>>
             /\ CASE o.kind = "error" ->
                       /\ pc' = "done" /\ err' = o.err
                       /\ emitted' = <<>>
                       /\ UNCHANGED <<variants, stored, rejected>>
                  [] o.kind = "skip" ->
                       /\ emitted' = <<>>
                       /\ UNCHANGED <<pc, err, variants, stored, rejected>>
                  [] o.kind = "emit" ->
                       /\ emitted' = <<o.row>>
                       /\ IF variantsFull(nv)
                          THEN \E res \in StoreResults(storeCtx(cancelled)) :
                                 /\ stored' = IF res = "nil" THEN Append(stored, nv)
                                              ELSE stored
                                 /\ rejected' = IF res = "nil" THEN rejected ELSE nv
                                 /\ IF variantsStoreFailed(res)
                                    THEN /\ pc' = "done"
                                         /\ err' = "could not store variants"
                                         /\ variants' = nv
                                    ELSE /\ variants' = <<>>
                                         /\ UNCHANGED <<pc, err>>
                          ELSE /\ variants' = nv
                               /\ UNCHANGED <<pc, err, stored, rejected>>
             /\ handles' = IF pc' = "done" THEN deferredDBSNP(handles) ELSE handles

\* lines 108-111 and 178-188: the reader returns nil; the remaining records
\* are flushed, then the reader's recorded error is examined.
DBSNPEnd ==
    /\ fn = "DBSNP" /\ pc = "loop"
    /\ variant' = NoRecord
    /\ emitted' = <<>>
    /\ pc' = "done"
    /\ UNCHANGED <<fn, profile, nread, variants, alleles, cancelled, midBatch>>
    /\ \E readerErr \in BOOLEAN :
         IF finalFlush(variants, readerErr)
         THEN \E res \in StoreResults(storeCtx(cancelled)) :
                /\ eosCalls' = eosCalls + 1
                /\ stored' = IF res = "nil" THEN Append(stored, variants) ELSE stored
                /\ rejected' = IF res = "nil" THEN rejected ELSE variants
                /\ err' = IF variantsStoreFailed(res) THEN "could not store variants"
                          ELSE IF readerErr THEN "vcf reader error"
                          ELSE "nil"
         ELSE /\ err' = IF readerErr THEN "vcf reader error" ELSE "nil"
              /\ UNCHANGED <<stored, rejected, eosCalls>>
    /\ handles' = deferredDBSNP(handles)

-----------------------------------------------------------------------------
(* src/unnamed/part_001: the ancestry-group orderings.                     *)

\* lines 40-51
ancestryGroups ==
    <<"ALL", "AFR", "AMI", "AMR", "ASJ", "EAS", "FIN", "MID", "NFE", "SAS">>

\* lines 56-67
mtDNAAncestryGroups ==
    <<"AFR", "AMI", "AMR", "ASJ", "EAS", "FIN", "NFE", "OTH", "SAS", "MID">>

\* line 176: fmt.Sprintf("AF_%s", strings.ToLower(string(ancestry)))
afKey(ancestry) ==
    CASE ancestry = "AFR" -> "AF_afr" [] ancestry = "AMI" -> "AF_ami"
      [] ancestry = "AMR" -> "AF_amr" [] ancestry = "ASJ" -> "AF_asj"
      [] ancestry = "EAS" -> "AF_eas" [] ancestry = "FIN" -> "AF_fin"
      [] ancestry = "MID" -> "AF_mid" [] ancestry = "NFE" -> "AF_nfe"
      [] ancestry = "SAS" -> "AF_sas" [] ancestry = "OTH" -> "AF_oth"

PopKeys == {afKey(ancestryGroups[i]) : i \in 2..Len(ancestryGroups)}

\* line 128 of src/unnamed/part_003: the caller's minimum frequency, 0.001.
minumumFrequency == 100

\* strings.ToUpper, on the ASCII letters.
LowerChars ==
    <<"a", "b", "c", "d", "e", "f", "g", "h", "i", "j", "k", "l", "m",
      "n", "o", "p", "q", "r", "s", "t", "u", "v", "w", "x", "y", "z">>

UpperChars ==
    <<"A", "B", "C", "D", "E", "F", "G", "H", "I", "J", "K", "L", "M",
      "N", "O", "P", "Q", "R", "S", "T", "U", "V", "W", "X", "Y", "Z">>

ToUpper(s) ==
    [i \in 1..Len(s) |->
        IF \E k \in 1..26 : LowerChars[k] = s[i]
        THEN UpperChars[CHOOSE k \in 1..26 : LowerChars[k] = s[i]]
        ELSE s[i]]

\* strings.Contains
Contains(s, sub) ==
    \E i \in 1..(Len(s) - Len(sub) + 1) : SubSeq(s, i, i + Len(sub) - 1) = sub

\* 10^-5 units of the first five digits of a fraction.
FracUnits(d) ==
    LET digit(i) == IF i <= Len(d) THEN DigitVal(d[i]) ELSE 0
    IN  10000 * digit(1) + 1000 * digit(2) + 100 * digit(3) + 10 * digit(4) + digit(5)

\* strconv.ParseFloat(s, 64) on plain decimals (digits, at most one point, at
\* least one digit, an optional sign), the value in units of 10^-5.
ParseFloat(s) ==
    LET neg   == s # <<>> /\ s[1] = "-"
        sgn   == s # <<>> /\ s[1] \in {"+", "-"}
        body  == IF sgn THEN Tail(s) ELSE s
        parts == Split(body, ".")
        whole == parts[1]
        frac  == IF Len(parts) > 1 THEN parts[2] ELSE <<>>
        mag   == 100000 * DigitsValue(whole, 0) + FracUnits(frac)
    IN  IF \/ Len(parts) > 2
           \/ (whole = <<>> /\ frac = <<>>)
           \/ \E i \in 1..Len(whole) : ~IsDigit(whole[i])
           \/ \E i \in 1..Len(frac) : ~IsDigit(frac[i])
        THEN [ok |-> FALSE, val |-> 0]
        ELSE [ok |-> TRUE, val |-> IF neg THEN 0 - mag ELSE mag]

-----------------------------------------------------------------------------
(* GnoMAD, src/unnamed/part_001 lines 112-293: one record.                 *)

\* info.Get(key): a field of the record's INFO is <<value>>, or <<>> when the
\* key is absent (Get returns an error).
Has(field) == field # <<>>

\* lines 119-132: the usable identifiers among the tokens, in order.
RECURSIVE idsOfTokens(_)
idsOfTokens(toks) ==
    IF toks = <<>> THEN <<>>
    ELSE IF ~HasPrefix(toks[1], rs) THEN idsOfTokens(Tail(toks))
    ELSE IF ~ParseInt(TrimPrefix(toks[1], rs)).ok THEN idsOfTokens(Tail(toks))
    ELSE <<ParseInt(TrimPrefix(toks[1], rs)).val>> \o idsOfTokens(Tail(toks))

\* lines 117-133
extractIds(idField) ==
    IF HasPrefix(idField, rs) THEN idsOfTokens(Split(idField, ";")) ELSE <<>>

\* One Allele per group, shared by the identifiers of the record.
alleleRowsShared(ids, r, ancestry, frequency) ==
    <<[ID |-> ids[1], Reference |-> r.ref, Alternate |-> r.alt[1],
       Ancestry |-> ancestry, Frequency |-> frequency]>>

\* lines 188-196 and 282-290: one Allele per identifier.
alleleRows(ids, r, ancestry, frequency) ==
    [i \in 1..Len(ids) |->
        [ID |-> ids[i], Reference |-> r.ref, Alternate |-> r.alt[1],
         Ancestry |-> ancestry, Frequency |-> frequency]]

\* A frequency equal to the noise floor kept.
aboveFloorInclusive(frequency) == 100 * frequency >= minumumFrequency

\* lines 187 and 281: the noise floor.
aboveFloor(frequency) == 100 * frequency > minumumFrequency

\* lines 171-198: the rows of a non-mitochondrial record, group by group.
RECURSIVE groupRows(_, _, _)
groupRows(ids, r, k) ==
    IF k > Len(ancestryGroups) THEN <<>>
    ELSE LET ancestry == ancestryGroups[k]
             field == IF ancestry = "ALL" THEN r.info.AF
                      ELSE r.info.pop[afKey(ancestry)]
         IN  (IF Has(field) /\ aboveFloor(field[1])
              THEN alleleRows(ids, r, ancestry, field[1])
              ELSE <<>>) \o groupRows(ids, r, k + 1)

\* lines 143-198: strategy (a).
nonMTRows(ids, r) ==
    IF ~Has(r.info.AF) THEN <<>>
    ELSE IF r.info.AF[1] < minumumFrequency THEN <<>>
    ELSE IF ~Has(r.info.allele_type) THEN <<>>
    ELSE IF ToUpper(r.info.allele_type[1]) \notin
            {<<"S", "N", "V">>, <<"I", "N", "S">>, <<"D", "E", "L">>} THEN <<>>
    ELSE IF Len(r.alt) # 1 THEN <<>>
    ELSE groupRows(ids, r, 1)

\* The groups counted along the parsable tokens only, so that an unparsable
\* token shifts the tokens after it.
mtShareShifted(toks, k) ==
    LET parsable == SelectSeq(toks, LAMBDA t : ParseFloat(t).ok)
    IN  IF k <= Len(parsable) THEN ParseFloat(parsable[k]).val ELSE 0

\* lines 252-260 and 262-270: the frequency the tokens of one array add for the
\* group at place k of mtDNAAncestryGroups.
mtShare(toks, k) ==
    IF k <= Len(toks) /\ ParseFloat(toks[k]).ok THEN ParseFloat(toks[k]).val ELSE 0

\* lines 259 and 269: mtDNAAncestryGroups[i] with i beyond the ten groups.
mtOutOfRange(toks) ==
    \E i \in 1..Len(toks) : i > Len(mtDNAAncestryGroups) /\ ParseFloat(toks[i]).ok

\* lines 251-270: populationFrequencies[ancestry], zero when never set.
populationFrequency(r, ancestry) ==
    LET het == Split(r.info.pop_AF_het[1], "|")
        hom == Split(r.info.pop_AF_hom[1], "|")
        at  == {k \in 1..Len(mtDNAAncestryGroups) : mtDNAAncestryGroups[k] = ancestry}
    IN  IF at = {} THEN 0
        ELSE LET k == CHOOSE k \in at : TRUE IN mtShare(het, k) + mtShare(hom, k)

\* The rows of a mitochondrial record made for All and then every group of
\* mtDNAAncestryGroups.
RECURSIVE mtGroupRowsOwnOrder(_, _, _)
mtGroupRowsOwnOrder(ids, r, k) ==
    IF k > Len(mtDNAAncestryGroups) + 1 THEN <<>>
    ELSE LET ancestry == IF k = 1 THEN "ALL" ELSE mtDNAAncestryGroups[k - 1]
             frequency == IF ancestry = "ALL"
                          THEN r.info.AF_het[1] + r.info.AF_hom[1]
                          ELSE populationFrequency(r, ancestry)
         IN  (IF aboveFloor(frequency)
              THEN alleleRows(ids, r, ancestry, frequency)
              ELSE <<>>) \o mtGroupRowsOwnOrder(ids, r, k + 1)

\* lines 272-292: the rows of a mitochondrial record, group by group.
RECURSIVE mtGroupRows(_, _, _)
mtGroupRows(ids, r, k) ==
    IF k > Len(ancestryGroups) THEN <<>>
    ELSE LET ancestry == ancestryGroups[k]
             frequency == IF ancestry = "ALL"
                          THEN r.info.AF_het[1] + r.info.AF_hom[1]
                          ELSE populationFrequency(r, ancestry)
         IN  (IF aboveFloor(frequency)
              THEN alleleRows(ids, r, ancestry, frequency)
              ELSE <<>>) \o mtGroupRows(ids, r, k + 1)

\* lines 201-249: the record reaches the population arrays.
mtReachesArrays(r) ==
    /\ Has(r.info.AF_het) /\ Has(r.info.AF_hom)
    /\ r.info.AF_het[1] + r.info.AF_hom[1] >= minumumFrequency
    /\ Has(r.info.vep)
    /\ \/ Contains(r.info.vep[1], <<"i", "n", "s", "e", "r", "t", "i", "o", "n">>)
       \/ Contains(r.info.vep[1], <<"d", "e", "l", "e", "t", "i", "o", "n">>)
       \/ Contains(r.info.vep[1], <<"S", "N", "V">>)
    /\ Len(r.alt) = 1
    /\ Has(r.info.pop_AF_het) /\ Has(r.info.pop_AF_hom)

\* lines 259 and 269: the record makes the call panic.
mtPanics(r) ==
    /\ mtReachesArrays(r)
    /\ \/ mtOutOfRange(Split(r.info.pop_AF_het[1], "|"))
       \/ mtOutOfRange(Split(r.info.pop_AF_hom[1], "|"))

\* lines 200-292: strategy (b).
mtRows(ids, r) == IF mtReachesArrays(r) THEN mtGroupRows(ids, r, 1) ELSE <<>>

\* line 142: names.Chromosome, the canonical label of a contig name.
namesChromosome(c) ==
    CASE c \in {"chrM", "chrMT", "M", "MT"} -> "MT"
      [] c = "chr1" -> "1"
      [] OTHER -> c

\* The filter status only asked of the records of strategy (a).
passesUnlessMT(r) == r.filter = "PASS" \/ namesChromosome(r.chrom) = "MT"

\* line 113: only records whose filter status is PASS are used.
passes(r) == r.filter = "PASS"

\* lines 112-293: what one iteration of GnoMAD's loop does with record r, up
\* to the appends: the rows appended, or a panic.
ExtractAlleles(r) ==
    IF ~passes(r) THEN [kind |-> "rows", rows |-> <<>>]
    ELSE IF Len(extractIds(r.id)) = 0 THEN [kind |-> "rows", rows |-> <<>>]
    ELSE IF namesChromosome(r.chrom) # "MT"
    THEN [kind |-> "rows", rows |-> nonMTRows(extractIds(r.id), r)]
    ELSE IF mtPanics(r) THEN [kind |-> "panic", rows |-> <<>>]
    ELSE [kind |-> "rows", rows |-> mtRows(extractIds(r.id), r)]

-----------------------------------------------------------------------------
(* The gnomAD source file.                                                 *)

NoPop == [k \in PopKeys |-> <<>>]

\* The INFO of a non-mitochondrial record.
Info(af, alleleType, pop) ==
    [AF |-> af, allele_type |-> alleleType, pop |-> pop,
     AF_het |-> <<>>, AF_hom |-> <<>>, vep |-> <<>>,
     pop_AF_het |-> <<>>, pop_AF_hom |-> <<>>]

\* The INFO of a mitochondrial record.
MTInfo(het, hom, vep, popHet, popHom) ==
    [AF |-> <<>>, allele_type |-> <<>>, pop |-> NoPop,
     AF_het |-> het, AF_hom |-> hom, vep |-> vep,
     pop_AF_het |-> popHet, pop_AF_hom |-> popHom]

FrequencyRecord(filter, id, chrom, alt, info) ==
    [kind |-> "gnomad", filter |-> filter, id |-> id, chrom |-> chrom,
     ref |-> "A", alt |-> alt, info |-> info]

snv == <<"s", "n", "v">>

\* Identifier fields of gnomAD records: rs1, rs1;rs2, rs1;rs1, rs1;rs01,
\* CM9;rs1, rs1;CM9, rsX;rs2, rs1,rs2 and "." (no identifier).
FrequencyIds ==
    {rs \o <<"1">>,
     rs \o <<"1", ";">> \o rs \o <<"2">>,
     rs \o <<"1", ";">> \o rs \o <<"1">>,
     rs \o <<"1", ";">> \o rs \o <<"0", "1">>,
     <<"C", "M", "9", ";">> \o rs \o <<"1">>,
     rs \o <<"1", ";", "C", "M", "9">>,
     rs \o <<"X", ";">> \o rs \o <<"2">>,
     rs \o <<"1", ",">> \o rs \o <<"2">>,
     <<".">>}

\* Pipe-delimited arrays of a mitochondrial record.  Heterozygous: the spec's
\* example (0.1|0.0|... with ten values, 0.2 for Other, 0.3 at the end), x|0.02
\* (an unparsable token first) and one with eleven values.  Homozygous:
\* 0.05|0.0, 0.05|y|0.01 (an unparsable token in the middle) and the empty
\* string.
HetTen ==
    <<"0", ".", "1", "|", "0", ".", "0", "|", "0", "|", "0", "|", "0", "|",
      "0", "|", "0", "|", "0", ".", "2", "|", "0", "|", "0", ".", "3">>

HetUnparsable == <<"x", "|", "0", ".", "0", "2">>

HetEleven ==
    <<"0", "|", "0", "|", "0", "|", "0", "|", "0", "|", "0", "|", "0", "|",
      "0", "|", "0", "|", "0", "|", "0", ".", "5">>

HetArrays == {HetTen, HetUnparsable, HetEleven}

HomTwo == <<"0", ".", "0", "5", "|", "0", ".", "0">>

HomUnparsable == <<"0", ".", "0", "5", "|", "y", "|", "0", ".", "0", "1">>

HomArrays == {HomTwo, HomUnparsable, <<>>}

\* The records of a gnomAD file, by the file's profile: "ids" holds every
\* identifier field under both strategies and filter statuses, "fields" the
\* fields of strategy (a), "mt" the fields of strategy (b).
MixedFrequencies(prof) ==
    CASE prof = "ids" ->
           {FrequencyRecord(f, id, c, <<"T">>,
                            IF c = "chrM"
                            THEN MTInfo(<<60>>, <<40>>, <<<<"S", "N", "V">>>>,
                                        <<<<"0", ".", "1">>>>, <<<<"0", ".", "0", "5">>>>)
                            ELSE Info(<<200>>, <<snv>>,
                                      [NoPop EXCEPT !["AF_afr"] = <<300>>])) :
               f \in {"PASS", "AC0"}, id \in FrequencyIds, c \in {"chr1", "chrM"}}
      [] prof = "fields" ->
           {FrequencyRecord("PASS", rs \o <<"1">>, "chr1", alt, Info(af, ty, NoPop)) :
               alt \in {<<"T">>, <<"T", "G">>},
               af \in {<<>>, <<50>>, <<100>>, <<200>>},
               ty \in {<<>>, <<snv>>, <<<<"I", "N", "S">>>>, <<<<"D", "e", "l">>>>,
                       <<<<"m", "n", "v">>>>}}
           \cup {FrequencyRecord("PASS", rs \o <<"1", ";">> \o rs \o <<"2">>, "chr1",
                                 <<"T">>,
                                 Info(<<200>>, <<snv>>,
                                      [NoPop EXCEPT !["AF_afr"] = afr, !["AF_nfe"] = nfe])) :
               afr \in {<<>>, <<0>>, <<1>>, <<2>>}, nfe \in {<<>>, <<150>>}}
      [] prof = "mt" ->
           {FrequencyRecord("PASS", rs \o <<"1">>, "chrM", alt,
                            MTInfo(het, <<40>>, vep, <<<<"0", ".", "1">>>>, <<<<>>>>)) :
               alt \in {<<"T">>, <<"T", "G">>},
               het \in {<<>>, <<59>>, <<60>>},
               vep \in {<<>>, <<<<"s", "n", "v">>>>,
                        <<<<"a", "_", "d", "e", "l", "e", "t", "i", "o", "n">>>>}}
           \cup {FrequencyRecord(f, rs \o <<"1">>, "chrM", <<"T">>,
                                 MTInfo(<<60>>, <<40>>, <<<<"S", "N", "V">>>>,
                                        <<ph>>, <<pm>>)) :
               f \in {"PASS", "AC0"}, ph \in HetArrays, pm \in HomArrays}

\* The n-th record (from 0) of a "bulk" gnomAD file: PASS, identifier
\* rs<n+1>, biallelic SNV on chromosome 1, overall frequency 0.002, with one
\* ancestry group above the noise floor ("bulk": two rows) or two ("fanout":
\* three rows).
BulkFrequency(prof, n) ==
    FrequencyRecord("PASS", rs \o Digits(n + 1), "chr1", <<"T">>,
                    Info(<<200>>, <<snv>>,
                         IF prof = "fanout"
                         THEN [NoPop EXCEPT !["AF_afr"] = <<300>>, !["AF_nfe"] = <<150>>]
                         ELSE [NoPop EXCEPT !["AF_afr"] = <<300>>]))

\* The records vcfReader.Read() may return as the n-th record of the file.
FrequencySource(prof, n) ==
    IF prof \in {"bulk", "fanout"}
    THEN IF n < MaxFanout THEN {BulkFrequency(prof, n)} ELSE {}
    ELSE IF n < MaxMixed THEN MixedFrequencies(prof) ELSE {}

-----------------------------------------------------------------------------
(* GnoMAD, src/unnamed/part_001 lines 70-311.                              *)

\* lines 71-103: the file is opened, decompressed and handed to the reader.
GnoMADOpen ==
    /\ fn = "GnoMAD" /\ pc = "open"
    /\ \E showProgress \in BOOLEAN :
         \E outcome \in OpenOutcomes(showProgress) :
           /\ pc' = IF outcome = "ok" THEN "loop" ELSE "done"
           /\ err' = openErrorGnoMAD(outcome)
           /\ handles' = IF outcome = "ok" THEN openedHandles(outcome)
                         ELSE deferredGnoMAD(openedHandles(outcome))
    /\ UNCHANGED <<fn, profile, nread, variant, emitted, variants, alleles,
                   stored, rejected, eosCalls, cancelled, midBatch>>

\* A flush one record late.
allelesFullLate(buf) == Len(buf) > batchSize

\* line 295: the buffer has reached the threshold.
allelesFull(buf) == Len(buf) >= batchSize

\* line 304: rows remain at the end of the stream.
allelesRemain(buf) == Len(buf) > 0

\* lines 296-298 and 305-307: the store call's error makes GnoMAD return.
allelesStoreFailed(res) == res # "nil"

\* lines 106-302: one iteration of the loop for a record the reader returned.
GnoMADRead ==
    /\ fn = "GnoMAD" /\ pc = "loop"
    /\ \E r \in FrequencySource(profile, nread) :
         LET o == ExtractAlleles(r)
             na == alleles \o o.rows
         IN  /\ variant' = r
             /\ nread' = nread + 1
             /\ emitted' = o.rows
             /\ UNCHANGED <<fn, profile, variants, eosCalls, cancelled, midBatch>>
             /\ IF o.kind = "panic"
                THEN /\ pc' = "done" /\ err' = "panic: index out of range"
                     /\ UNCHANGED <<alleles, stored, rejected>>
                ELSE IF allelesFull(na)
                THEN \E res \in StoreResults(storeCtx(cancelled)) :
                       /\ stored' = IF res = "nil" THEN Append(stored, na) ELSE stored
                       /\ rejected' = IF res = "nil" THEN rejected ELSE na
                       /\ IF allelesStoreFailed(res)
                          THEN /\ pc' = "done"
                               /\ err' = "StoreAlleles error"
                               /\ alleles' = na
                          ELSE /\ alleles' = <<>>
                               /\ UNCHANGED <<pc, err>>
                ELSE /\ alleles' = na
                     /\ UNCHANGED <<pc, err, stored, rejected>>
             /\ handles' = IF pc' = "done" THEN deferredGnoMAD(handles) ELSE handles

\* lines 107-110 and 304-310: the reader returns nil; the remaining rows are
\* flushed.
GnoMADEnd ==
    /\ fn = "GnoMAD" /\ pc = "loop"
    /\ variant' = NoRecord
    /\ emitted' = <<>>
    /\ pc' = "done"
    /\ UNCHANGED <<fn, profile, nread, variants, alleles, cancelled, midBatch>>
    /\ IF allelesRemain(alleles)
       THEN \E res \in StoreResults(storeCtx(cancelled)) :
              /\ eosCalls' = eosCalls + 1
              /\ stored' = IF res = "nil" THEN Append(stored, alleles) ELSE stored
              /\ rejected' = IF res = "nil" THEN rejected ELSE alleles
              /\ err' = IF allelesStoreFailed(res) THEN "StoreAlleles error"
                        ELSE "nil"
       ELSE /\ err' = "nil"
            /\ UNCHANGED <<stored, rejected, eosCalls>>
    /\ handles' = deferredGnoMAD(handles)

-----------------------------------------------------------------------------
(* LiftOverChain, src/internal/importer/liftover.go lines 35-62.           *)

\* The chain file handed to liftover.StoreChainFile.
ChainFile == [kind |-> "chain"]

\* lines 36-61: the step at which LiftOverChain returns: os.Open,
\* compress.Decompress, chainfile.Read or f.Close failed, or
\* liftover.StoreChainFile was called.
ChainOutcomes == {"open", "decompress", "read", "close", "store"}

\* lines 36-55: the handles before the deferred calls run; f is closed at
\* line 53, before the chain is stored.
chainHandles(outcome) ==
    CASE outcome = "open" -> NoHandles
      [] outcome = "decompress" -> [f |-> "open", dr |-> "none"]
      [] outcome = "read" -> [f |-> "open", dr |-> "open"]
      [] OTHER -> [f |-> "closed", dr |-> "open"]

\* lines 36-61: the error returned.
chainError(outcome, res) ==
    CASE outcome = "open" -> "could not open chain file"
      [] outcome = "decompress" -> "could not decompress chain file"
      [] outcome = "read" -> "chainfile.Read error"
      [] outcome = "close" -> "could not close chain file"
      [] OTHER -> IF res = "nil" THEN "nil" ELSE "StoreChainFile error"

\* lines 35-62: the whole call.
LiftOverChain ==
    /\ fn = "LiftOverChain" /\ pc = "open"
    /\ \E outcome \in ChainOutcomes, res \in StoreResults(storeCtx(cancelled)) :
         /\ pc' = "done"
         /\ err' = chainError(outcome, res)
         /\ handles' = deferredLiftOverChain(chainHandles(outcome))
         /\ stored' = IF outcome = "store" /\ res = "nil"
                      THEN Append(stored, <<ChainFile>>)
                      ELSE stored
    /\ UNCHANGED <<fn, profile, nread, variant, emitted, variants, alleles,
                   rejected, eosCalls, cancelled, midBatch>>

-----------------------------------------------------------------------------
(* The environment and the specification.                                  *)

\* The buffer of the call being run.
Pending == IF fn = "DBSNP" THEN variants ELSE alleles

\* The caller cancels ctx while the call runs.
Cancel ==
    /\ pc = "loop" \/ (fn = "LiftOverChain" /\ pc = "open")
    /\ ~cancelled
    /\ cancelled' = TRUE
    /\ midBatch' = (Len(Pending) > 0)
    /\ UNCHANGED <<fn, profile, pc, handles, err, nread, variant, emitted,
                   variants, alleles, stored, rejected, eosCalls>>

Init ==
    /\ fn \in {"DBSNP", "GnoMAD", "LiftOverChain"}
    /\ profile \in CASE fn = "DBSNP" -> {"par", "table", "filters", "bulk"}
                     [] fn = "GnoMAD" -> {"ids", "fields", "mt", "bulk", "fanout"}
                     [] OTHER -> {"chain"}
    /\ pc = "open"
    /\ handles = NoHandles
    /\ err = "nil"
    /\ nread = 0
    /\ variant = NoRecord
    /\ emitted = <<>>
    /\ variants = <<>>
    /\ alleles = <<>>
    /\ stored = <<>>
    /\ rejected = <<>>
    /\ eosCalls = 0
    /\ cancelled = FALSE
    /\ midBatch = FALSE

Next ==
    \/ DBSNPOpen \/ DBSNPRead \/ DBSNPEnd
    \/ GnoMADOpen \/ GnoMADRead \/ GnoMADEnd
    \/ LiftOverChain
    \/ Cancel

Spec == Init /\ [][Next]_vars

-----------------------------------------------------------------------------
(* What the bulk files must produce, written down from the files alone.    *)

\* The number of records among the first n of a bulk dbSNP file that are not
\* multi-nucleotide variants.
Survivors(n) == n - (n \div 50)

\* The place in the file (from 0) of its j-th such record (from 1).
SurvivorIndex(j) == (j - 1) + ((j - 1) \div 49)

\* The Variant of the j-th surviving record of a bulk dbSNP file.
ExpectedVariant(j) ==
    [ID |-> SurvivorIndex(j) + 1, Chromosome |-> "1",
     Position |-> SurvivorIndex(j) + 1, Reference |-> "A", Class |-> "SNV"]

\* Rows per record of a bulk gnomAD file.
RowsPer == IF profile = "fanout" THEN 3 ELSE 2

\* The j-th Allele row of a bulk gnomAD file.
ExpectedAllele(j) ==
    LET g == (j - 1) % RowsPer
    IN  [ID |-> ((j - 1) \div RowsPer) + 1, Reference |-> "A", Alternate |-> "T",
         Ancestry |-> IF g = 0 THEN "ALL" ELSE IF g = 1 THEN "AFR" ELSE "NFE",
         Frequency |-> IF g = 0 THEN 200 ELSE IF g = 1 THEN 300 ELSE 150]

\* The first k rows rowAt(1), ..., rowAt(k) cut into consecutive chunks of
\* batchSize rows, the last one holding the remainder.
Chunks(k, rowAt(_)) ==
    [b \in 1..((k + batchSize - 1) \div batchSize) |->
        [j \in 1..(IF b * batchSize <= k THEN batchSize ELSE k % batchSize) |->
            rowAt((b - 1) * batchSize + j)]]

RECURSIVE Flat(_)
Flat(batches) ==
    IF batches = <<>> THEN <<>> ELSE batches[1] \o Flat(Tail(batches))

\* The rows of the record at hand are the last rows of the buffer, or of the
\* batch just stored when the record filled the buffer.
EmittedIsTail ==
    emitted # <<>> =>
        LET holder == IF Pending # <<>> THEN Pending
                      ELSE IF rejected # <<>> THEN rejected
                      ELSE stored[Len(stored)]
        IN  /\ Len(holder) >= Len(emitted)
            /\ SubSeq(holder, Len(holder) - Len(emitted) + 1, Len(holder)) = emitted

-----------------------------------------------------------------------------
(* The claims.                                                             *)

\* C1: when DBSNP has read a stream to its end and every store call
\* succeeded, the batches stored are the transformed surviving records, in
\* source order, cut into consecutive chunks of batchSize, then one chunk with
\* the remainder when there is one.  Checked on the bulk file, whose k-th
\* survivor is known; a file with fewer survivors than batchSize gives one
\* batch, or none when nothing survived.
C1_BatchesAreChunks ==
    (fn = "DBSNP" /\ pc = "done" /\ rejected = <<>> /\ variant = NoRecord
     /\ err \in {"nil", "vcf reader error"}) =>
        IF profile = "bulk"
        THEN stored = Chunks(Survivors(nread), ExpectedVariant)
        ELSE stored = IF variants = <<>> THEN <<>> ELSE <<variants>>

\* The 1003 survivors among 1023 records were stored as a batch of 1000 and
\* a final batch of 3.
C1_Witness ==
    /\ fn = "DBSNP" /\ profile = "bulk" /\ pc = "done" /\ err = "nil"
    /\ nread = 1023
    /\ Len(stored) = 2
    /\ Len(stored[1]) = 1000 /\ Len(stored[2]) = 3

\* C2: once a store call has failed, in either pipeline, the call has
\* returned an error (nothing more is read or stored, the batch is not
\* retried), and the destination holds exactly the batches stored before:
\* on the bulk files, the destination followed by the failed batch is the
\* chunking of the rows of the records read so far.
C2_StoreFailureAborts ==
    rejected # <<>> =>
        /\ pc = "done"
        /\ err = IF fn = "DBSNP" THEN "could not store variants"
                 ELSE "StoreAlleles error"
        /\ rejected \notin {stored[b] : b \in 1..Len(stored)}
        /\ (fn = "DBSNP" /\ profile = "bulk") =>
               Append(stored, rejected) = Chunks(Survivors(nread), ExpectedVariant)
        /\ (fn = "GnoMAD" /\ profile \in {"bulk", "fanout"}) =>
               /\ Flat(stored) \o rejected = [j \in 1..(RowsPer * nread) |-> ExpectedAllele(j)]
               /\ \A b \in 1..Len(stored) : Len(stored[b]) >= batchSize

\* The second store call of a bulk dbSNP file, the one at the end of the
\* stream, failed: exactly 1000 records are in the destination.
C2_Witness ==
    /\ fn = "DBSNP" /\ profile = "bulk" /\ pc = "done"
    /\ err = "could not store variants"
    /\ Len(rejected) = 3
    /\ Len(stored) = 1 /\ Len(Flat(stored)) = 1000

\* C3, as claimed: every batch of Allele rows stored before the end of the
\* stream holds exactly batchSize rows.
C3_ExactBatches ==
    fn = "GnoMAD" =>
        \A b \in 1..Len(stored) :
            (b < Len(stored) \/ eosCalls = 0) => Len(stored[b]) = batchSize

\* C3, amended: GnoMAD tests the buffer once per record, after all the rows of
\* the record are appended.  A batch stored inside the loop is a buffer
\* shorter than batchSize followed by all the rows of the record just read,
\* and holds at least batchSize rows.
C3_FlushAfterRecord ==
    [][(fn = "GnoMAD" /\ variant' # NoRecord /\ stored' # stored) =>
          /\ Len(alleles) < batchSize
          /\ stored' = Append(stored, alleles \o emitted')
          /\ Len(alleles \o emitted') >= batchSize]_vars

\* A batch of 1002 rows was stored inside the loop (three rows per record).
C3_Witness ==
    /\ fn = "GnoMAD" /\ pc = "loop"
    /\ Len(stored) = 1 /\ Len(stored[1]) = 1002
    /\ Len(emitted) = 3

\* A pipeline has returned after its reader returned nil (and not from its
\* opening code).
StreamEnded ==
    /\ fn \in {"DBSNP", "GnoMAD"} /\ pc = "done" /\ variant = NoRecord
    /\ err \in {"nil", "vcf reader error", "could not store variants",
                "StoreAlleles error"}

\* C4, as claimed: whenever the reader has returned nil, exactly one store
\* call was made after it.
C4_AlwaysOneFinalCall ==
    StreamEnded => eosCalls = 1

\* C4, amended: when the reader has returned nil, one store call is made
\* after it if the buffer holds rows, and none if it is empty; on the bulk
\* files none is made exactly when the rows of the file fill whole batches.
C4_FinalCallIffRemaining ==
    StreamEnded =>
        /\ eosCalls = IF Len(Pending) > 0 THEN 1 ELSE 0
        /\ (fn = "DBSNP" /\ profile = "bulk") =>
               (eosCalls = 0 <=> Survivors(nread) % batchSize = 0)
        /\ (fn = "GnoMAD" /\ profile = "bulk") =>
               (eosCalls = 0 <=> (2 * nread) % batchSize = 0)
        /\ (fn = "GnoMAD" /\ profile = "fanout") =>
               (eosCalls = 0 <=> (3 * nread) % (batchSize + 2) = 0)
        /\ (profile \notin {"bulk", "fanout"}) =>
               (eosCalls = 0 <=> (stored = <<>> /\ rejected = <<>>))

\* The stream ended after exactly 1000 surviving records: one batch was
\* stored in the loop and no store call followed the end of the stream.
C4_Witness ==
    /\ fn = "DBSNP" /\ profile = "bulk" /\ pc = "done" /\ variant = NoRecord
    /\ err = "nil"
    /\ Len(stored) = 1 /\ Len(stored[1]) = batchSize
    /\ eosCalls = 0

\* C5: once ctx is cancelled nothing more is stored, so the batches stored
\* before stay as they are and the pending buffer never reaches the
\* destination; and a call whose ctx was cancelled while its buffer held rows
\* returns an error.
C5_CancelMidBatch ==
    /\ [](midBatch /\ pc = "done" => err # "nil")
    /\ [][cancelled => stored' = stored]_vars

\* ctx was cancelled with rows pending after one batch had been stored; the
\* call returned the store error and the destination still holds that batch.
C5_Witness ==
    /\ fn = "DBSNP" /\ pc = "done" /\ midBatch
    /\ err = "could not store variants"
    /\ Len(stored) = 1 /\ rejected # <<>>

\* C6: the PAR policy.  For a dbSNP record that passed the filters and whose
\* accession resolved to chromosome c, at position p: a Y record in
\* [10001, 2781479] or [56887903, 57217415] is dropped; an X record in
\* [10001, 2781479] is stored as PAR, one in [155701383, 156030895] as PAR2;
\* every other record keeps c; a retained record keeps p.  All bounds are
\* inclusive.
C6_ParPolicy ==
    (/\ fn = "DBSNP" /\ variant.kind = "dbsnp"
     /\ variant.common = "true" /\ variant.vc \notin {"MNV", "err"}
     /\ parseVariantId(variant.id).ok
     /\ variant.chrom \in Accessions) =>
        LET c == idToChromosome(variant.chrom)
            p == variant.pos
            inPAR == p >= 10001 /\ p <= 2781479
            inXPAR2 == p >= 155701383 /\ p <= 156030895
            inYPAR2 == p >= 56887903 /\ p <= 57217415
        IN  IF c = "Y" /\ (inPAR \/ inYPAR2)
            THEN emitted = <<>>
            ELSE /\ Len(emitted) = 1
                 /\ emitted[1].Position = p
                 /\ emitted[1].Chromosome =
                        (IF c = "X" /\ inPAR THEN "PAR"
                         ELSE IF c = "X" /\ inXPAR2 THEN "PAR2"
                         ELSE c)
                 /\ EmittedIsTail

\* The second record of a file is an X record at 155701383, the first
\* position of the second region: it is in the buffer as a PAR2 record.
C6_Witness ==
    /\ fn = "DBSNP" /\ variant.kind = "dbsnp"
    /\ variant.chrom = "NC_000023.11" /\ variant.pos = 155701383
    /\ nread = 2
    /\ Len(variants) >= 1
    /\ variants[Len(variants)] =
           [ID |-> 12345, Chromosome |-> "PAR2", Position |-> 155701383,
            Reference |-> "A", Class |-> "SNV"]

Labels ==
    {"1", "2", "3", "4", "5", "6", "7", "8", "9", "10", "11", "12", "13", "14",
     "15", "16", "17", "18", "19", "20", "21", "22", "X", "Y", "MT", "PAR",
     "PAR2"}

VariantOk(v) == v.Class # "MNV" /\ v.Chromosome \in Labels

\* C7: every Variant in the buffer or handed to the store has a class other
\* than MNV and a chromosome among 1..22, X, Y, MT, PAR, PAR2; and the
\* Variant made from the record at hand comes from a common record that is
\* not an MNV, has a label obtained through the accession table, is PAR or
\* PAR2 only when the accession resolved to X, and is Y whenever the
\* accession resolved to Y.
C7_VariantInvariant ==
    fn = "DBSNP" =>
        /\ \A i \in 1..Len(variants) : VariantOk(variants[i])
        /\ \A i \in 1..Len(rejected) : VariantOk(rejected[i])
        /\ \A b \in 1..Len(stored) :
               \A i \in 1..Len(stored[b]) : VariantOk(stored[b][i])
        /\ emitted # <<>> =>
               /\ variant.common = "true"
               /\ variant.vc # "MNV"
               /\ emitted[1].Class = variant.vc
               /\ variant.chrom \in Accessions
               /\ emitted[1].Chromosome \in {"PAR", "PAR2"} =>
                      idToChromosome(variant.chrom) = "X"
               /\ idToChromosome(variant.chrom) = "Y" =>
                      emitted[1].Chromosome = "Y"
               /\ emitted[1].Chromosome \notin {"PAR", "PAR2"} =>
                      emitted[1].Chromosome = idToChromosome(variant.chrom)
               /\ EmittedIsTail

\* An X record of the first region, then a Y record outside both regions:
\* the buffer holds a PAR record and a Y record.
C7_Witness ==
    /\ fn = "DBSNP" /\ Len(variants) = 2
    /\ variants[1].Chromosome = "PAR" /\ variants[2].Chromosome = "Y"
    /\ variant.kind = "dbsnp" /\ variant.chrom = "NC_000024.10"

\* The identifiers of VariantIds that do not parse: rsABC, rs and rs2^63.
BadIds == {rs \o <<"A", "B", "C">>, rs, rs \o MinInt64Digits}

\* C8: a common record that is not an MNV and whose identifier does not
\* parse makes DBSNP return an error, whether or not its accession resolves:
\* nothing is read or stored afterwards and the buffer is not stored; no
\* other record gives that error; and the Variant made from rsN has ID N.
C8_MalformedIdAborts ==
    (fn = "DBSNP" /\ variant.kind = "dbsnp") =>
        /\ (/\ variant.common = "true" /\ variant.vc \notin {"MNV", "err"}
            /\ variant.id \in BadIds) =>
               /\ pc = "done" /\ err = "could not parse variant id"
               /\ emitted = <<>>
               /\ stored = <<>> /\ rejected = <<>> /\ eosCalls = 0
        /\ err = "could not parse variant id" =>
               /\ variant.common = "true" /\ variant.vc \notin {"MNV", "err"}
               /\ variant.id \in BadIds
        /\ emitted # <<>> =>
               \/ /\ emitted[1].ID >= 0
                  /\ variant.id = rs \o Digits(emitted[1].ID)
               \/ emitted[1].ID = 12 /\ variant.id = <<"1", "2">>
               \/ emitted[1].ID = 0 - 7 /\ variant.id = rs \o <<"-", "7">>

\* rs12345 was buffered, then rsABC on an unknown contig ended the call: the
\* buffered Variant was never stored.
C8_Witness ==
    /\ fn = "DBSNP" /\ pc = "done" /\ err = "could not parse variant id"
    /\ variant.kind = "dbsnp"
    /\ variant.id = rs \o <<"A", "B", "C">> /\ variant.chrom = "NW_000001.1"
    /\ Len(variants) = 1 /\ variants[1].ID = 12345
    /\ stored = <<>>

\* C9, as claimed: the identifiers of the rows of a PASS record whose fields
\* all pass are the parsed suffixes of all the rs tokens of its identifier
\* field, wherever they stand in the field, and the record gives no row
\* exactly when no token gives an identifier.
C9_AllRsTokensUsed ==
    (/\ fn = "GnoMAD" /\ profile = "ids"
     /\ variant.kind = "gnomad" /\ variant.filter = "PASS") =>
        LET ids == idsOfTokens(Split(variant.id, ";"))
        IN  /\ {emitted[i].ID : i \in 1..Len(emitted)} =
                   {ids[i] : i \in 1..Len(ids)}
            /\ (emitted = <<>> <=> ids = <<>>)

\* C10, as claimed: the rows of one record hold at most one row for an
\* identifier and an ancestry group.
C10_OneRowPerIdAndGroup ==
    fn = "GnoMAD" =>
        \A i, j \in 1..Len(emitted) :
            (emitted[i].ID = emitted[j].ID /\ emitted[i].Ancestry = emitted[j].Ancestry)
                => i = j

-----------------------------------------------------------------------------
(* The frequency claims: what a gnomAD record must produce, written down   *)
(* from the record alone.                                                  *)

\* The groups Alleles are stored for: All and nine ancestry groups.
Configured == {"ALL", "AFR", "AMI", "AMR", "ASJ", "EAS", "FIN", "MID", "NFE", "SAS"}

IsMT == variant.chrom = "chrM"

\* The overall frequency of the record at hand: <<>> when a field is missing.
Overall ==
    IF IsMT
    THEN IF variant.info.AF_het # <<>> /\ variant.info.AF_hom # <<>>
         THEN <<variant.info.AF_het[1] + variant.info.AF_hom[1]>>
         ELSE <<>>
    ELSE variant.info.AF

\* The record at hand passes every filter of its strategy (and, for a
\* mitochondrial record, its arrays have no more than ten values).
Survives ==
    /\ variant.kind = "gnomad" /\ variant.filter = "PASS"
    /\ extractIds(variant.id) # <<>>
    /\ Overall # <<>> /\ Overall[1] >= minumumFrequency
    /\ Len(variant.alt) = 1
    /\ IF IsMT
       THEN /\ variant.info.vep \in
                   {<<<<"S", "N", "V">>>>,
                    <<<<"a", "_", "d", "e", "l", "e", "t", "i", "o", "n">>>>}
            /\ variant.info.pop_AF_het # <<>> /\ variant.info.pop_AF_hom # <<>>
            /\ variant.info.pop_AF_het[1] # HetEleven
       ELSE variant.info.allele_type \in
                {<<snv>>, <<<<"I", "N", "S">>>>, <<<<"D", "e", "l">>>>}

\* The frequency (in units of 10^-5) each pipe-delimited array of the source
\* file gives to the group g, read off the array by hand: the k-th value goes
\* to the k-th of African, Amish, American, Ashkenazi, East Asian, Finnish,
\* European, Other, South Asian, Middle Eastern.
ExpectedShare(arr, g) ==
    CASE arr = HetTen ->
           (CASE g = "AFR" -> 10000 [] g = "OTH" -> 20000 [] g = "MID" -> 30000
              [] OTHER -> 0)
      [] arr = HetUnparsable -> (IF g = "AMI" THEN 2000 ELSE 0)
      [] arr = HomTwo -> (IF g = "AFR" THEN 5000 ELSE 0)
      [] arr = HomUnparsable ->
           (CASE g = "AFR" -> 5000 [] g = "AMR" -> 1000 [] OTHER -> 0)
      [] arr = <<"0", ".", "1">> -> (IF g = "AFR" THEN 10000 ELSE 0)
      [] arr = <<"0", ".", "0", "5">> -> (IF g = "AFR" THEN 5000 ELSE 0)
      [] OTHER -> 0

\* The frequency of group g in the record at hand: <<>> when the record has
\* no field for it.
GroupFrequency(g) ==
    IF g = "ALL" THEN Overall
    ELSE IF IsMT
    THEN <<ExpectedShare(variant.info.pop_AF_het[1], g)
           + ExpectedShare(variant.info.pop_AF_hom[1], g)>>
    ELSE variant.info.pop[afKey(g)]

\* The groups of the record at hand whose frequency exceeds a hundredth of
\* the minimum frequency.
PassingGroups ==
    {g \in Configured :
        GroupFrequency(g) # <<>> /\ 100 * GroupFrequency(g)[1] > minumumFrequency}

\* The rows of the record at hand for group g.
RowsOf(g) == SelectSeq(emitted, LAMBDA a : a.Ancestry = g)

\* C11: a record that passes every filter, with identifiers ids and the
\* groups of PassingGroups above the noise floor, appends Len(ids) times
\* Cardinality(PassingGroups) rows: for every passing group one row per
\* identifier, in the order of the identifiers, with the record's reference,
\* its alternate allele and the group's frequency; and no other row.
C11_FanOut ==
    (fn = "GnoMAD" /\ Survives) =>
        LET ids == extractIds(variant.id)
        IN  /\ Len(emitted) = Len(ids) * Cardinality(PassingGroups)
            /\ \A i \in 1..Len(emitted) : emitted[i].Ancestry \in PassingGroups
            /\ \A g \in PassingGroups :
                   RowsOf(g) =
                       [i \in 1..Len(ids) |->
                           [ID |-> ids[i], Reference |-> variant.ref,
                            Alternate |-> variant.alt[1], Ancestry |-> g,
                            Frequency |-> GroupFrequency(g)[1]]]
            /\ EmittedIsTail

\* The record rs1;rs2 with All and African above the floor gave four rows.
C11_Witness ==
    /\ fn = "GnoMAD" /\ variant.kind = "gnomad" /\ variant.chrom = "chr1"
    /\ variant.id = rs \o <<"1", ";">> \o rs \o <<"2">>
    /\ Len(emitted) = 4
    /\ {emitted[i].Ancestry : i \in 1..Len(emitted)} = {"ALL", "AFR"}
    /\ {emitted[i].ID : i \in 1..Len(emitted)} = {1, 2}

\* C12: a record whose overall frequency is below the minimum frequency
\* gives no row; a record that passes the filters gives a row for a group
\* exactly when the group has a frequency and that frequency is strictly
\* above a hundredth of the minimum frequency, whatever the other groups
\* have: a group at exactly that floor, or without a field, gives no row.
C12_Thresholds ==
    (fn = "GnoMAD" /\ variant.kind = "gnomad") =>
        /\ (Overall # <<>> /\ Overall[1] < minumumFrequency) => emitted = <<>>
        /\ Survives =>
               \A g \in Configured :
                   (RowsOf(g) # <<>>) <=>
                       /\ GroupFrequency(g) # <<>>
                       /\ 100 * GroupFrequency(g)[1] > minumumFrequency
        /\ \A i \in 1..Len(emitted) :
               /\ 100 * emitted[i].Frequency > minumumFrequency
               /\ <<emitted[i].Frequency>> = GroupFrequency(emitted[i].Ancestry)

\* Overall frequency 0.002, African at 0.00001 (the floor for 0.001) and
\* European at 0.0015: rows for All and European, none for African.
C12_Witness ==
    /\ fn = "GnoMAD" /\ variant.kind = "gnomad" /\ variant.chrom = "chr1"
    /\ variant.info.AF = <<200>>
    /\ variant.info.pop["AF_afr"] = <<1>>
    /\ variant.info.pop["AF_nfe"] = <<150>>
    /\ {emitted[i].Ancestry : i \in 1..Len(emitted)} = {"ALL", "NFE"}

\* C13: for a mitochondrial record that passes the filters, the frequency of
\* the group at place k of the mitochondrial ordering is the k-th value of the
\* heterozygous array plus the k-th value of the homozygous array, an
\* unparsable or missing value counting as zero for its array only and
\* leaving the places of the later values as they are; such a value does
\* not end the call or drop the record.
C13_PositionalSum ==
    (fn = "GnoMAD" /\ Survives /\ IsMT) =>
        /\ err = "nil" \/ rejected # <<>>
        /\ emitted # <<>>
        /\ \A g \in Configured \ {"ALL"} :
               LET frequency == ExpectedShare(variant.info.pop_AF_het[1], g)
                                + ExpectedShare(variant.info.pop_AF_hom[1], g)
               IN  /\ RowsOf(g) # <<>> <=> 100 * frequency > minumumFrequency
                   /\ \A i \in 1..Len(RowsOf(g)) : RowsOf(g)[i].Frequency = frequency

\* Arrays x|0.02 and 0.05|y|0.01: African 0.05, Amish 0.02, American 0.01.
C13_Witness ==
    /\ fn = "GnoMAD" /\ variant.kind = "gnomad" /\ variant.chrom = "chrM"
    /\ variant.info.pop_AF_het = <<HetUnparsable>>
    /\ variant.info.pop_AF_hom = <<HomUnparsable>>
    /\ pc = "loop"
    /\ [i \in 1..Len(emitted) |-> <<emitted[i].Ancestry, emitted[i].Frequency>>] =
           <<<<"ALL", 100>>, <<"AFR", 5000>>, <<"AMI", 2000>>, <<"AMR", 1000>>>>

\* C14, as claimed: when DBSNP, GnoMAD or LiftOverChain has returned, on any
\* path, the source file and the decompression stream it opened are closed.
C14_HandlesClosedAtReturn ==
    pc = "done" => (handles.f # "open" /\ handles.dr # "open")

NotOther(a) == a.Ancestry # "OTH"

\* C15: no Allele of the group Other is ever appended or stored, whatever the
\* arrays of the mitochondrial records hold; the rows of a mitochondrial
\* record only have groups Alleles are stored for, and its All rows carry
\* the sum of the heterozygous and homozygous overall frequencies.
C15_OtherNeverEmitted ==
    fn = "GnoMAD" =>
        /\ \A i \in 1..Len(alleles) : NotOther(alleles[i])
        /\ \A i \in 1..Len(rejected) : NotOther(rejected[i])
        /\ \A b \in 1..Len(stored) :
               \A i \in 1..Len(stored[b]) : NotOther(stored[b][i])
        /\ (variant.kind = "gnomad" /\ IsMT) =>
               /\ \A i \in 1..Len(emitted) : emitted[i].Ancestry \in Configured
               /\ \A i \in 1..Len(RowsOf("ALL")) :
                      RowsOf("ALL")[i].Frequency =
                          variant.info.AF_het[1] + variant.info.AF_hom[1]
               /\ Survives => RowsOf("ALL") # <<>>
               /\ EmittedIsTail

\* The arrays of the record give Other 0.2, well above the floor: the record
\* has rows for All (0.001), African and Middle Eastern, and none for Other.
C15_Witness ==
    /\ fn = "GnoMAD" /\ variant.kind = "gnomad" /\ variant.chrom = "chrM"
    /\ variant.info.pop_AF_het = <<HetTen>>
    /\ variant.info.pop_AF_hom = <<HomTwo>>
    /\ [i \in 1..Len(emitted) |-> <<emitted[i].Ancestry, emitted[i].Frequency>>] =
           <<<<"ALL", 100>>, <<"AFR", 15000>>, <<"MID", 30000>>>>
    /\ alleles = emitted

\* C16, as claimed: no mitochondrial record makes the call end with an
\* out-of-range access to the ten groups of the mitochondrial ordering.
C16_IndexInRange ==
    (fn = "GnoMAD" /\ variant.kind = "gnomad" /\ IsMT) =>
        err # "panic: index out of range"

\* C17: a gnomAD record whose filter status is not PASS appends nothing and
\* does not end the call, on the mitochondrial contig as on any other, even
\* when it meets every other criterion of its strategy; so every row
\* appended comes from a PASS record.
C17_OnlyPassRecords ==
    (fn = "GnoMAD" /\ variant.kind = "gnomad") =>
        /\ variant.filter # "PASS" =>
               /\ emitted = <<>>
               /\ err # "panic: index out of range"
        /\ emitted # <<>> => (variant.filter = "PASS" /\ EmittedIsTail)

\* A mitochondrial record with filter status AC0 that meets every criterion
\* of strategy (b) was read after a record that gave rows: it added none.
C17_Witness ==
    /\ fn = "GnoMAD" /\ variant.kind = "gnomad" /\ variant.chrom = "chrM"
    /\ variant.filter = "AC0"
    /\ variant.id = rs \o <<"1">>
    /\ variant.info.AF_het = <<60>> /\ variant.info.AF_hom = <<40>>
    /\ variant.info.vep = <<<<"S", "N", "V">>>>
    /\ nread = 2 /\ pc = "loop"
    /\ emitted = <<>> /\ Len(alleles) = 2

\* C18: when DBSNP returns the reader's error, every store call succeeded and
\* every Variant buffered has been stored, the remaining ones by a store call
\* made after the end of the stream: on the bulk file the destination holds
\* the chunks of all the survivors read.
C18_ReaderErrorAfterFlush ==
    (fn = "DBSNP" /\ err = "vcf reader error") =>
        /\ pc = "done" /\ rejected = <<>>
        /\ eosCalls = IF variants # <<>> THEN 1 ELSE 0
        /\ variants # <<>> => (stored # <<>> /\ stored[Len(stored)] = variants)
        /\ profile = "bulk" => stored = Chunks(Survivors(nread), ExpectedVariant)

\* The reader ended a file of two surviving records with an error: DBSNP
\* returned that error after storing both.
C18_Witness ==
    /\ fn = "DBSNP" /\ pc = "done" /\ err = "vcf reader error"
    /\ Len(variants) = 2
    /\ stored = <<variants>>
    /\ eosCalls = 1

=============================================================================
